---------------------------- MODULE Spec2Model ----------------------------
(***************************************************************************)
(* Model of the BudgetTracker class of src/Budget_tracker1.py.             *)
(*                                                                         *)
(* Amounts are integers.  For integers e and i below 2^50 the Python test  *)
(* e > i * 0.8 (a double multiplication) has the same outcome as the exact *)
(* test 5*e > 4*i: when 0.8*i is an integer the product rounds to it       *)
(* exactly, otherwise it stays strictly between the neighbouring integers. *)
(* A Python list is a sequence, a Python dict is the sequence of its       *)
(* <<key, value>> pairs in insertion order.                                *)
(***************************************************************************)
EXTENDS Integers, Sequences, FiniteSets, TLC

VARIABLES income,      \* self.income
          expenses,    \* self.expenses (the list object)
          categories,  \* self.categories
          view,        \* what the caller holds from view_expenses()
          lastOp,      \* the last call: [op, args, clock]
          result,      \* <<value>> returned by the last call
          incomeArgs,  \* history: amounts passed to add_income
          expenseArgs  \* history: amounts of the add_expense calls that returned True

vars == <<income, expenses, categories, view, lastOp, result,
          incomeArgs, expenseArgs>>

-----------------------------------------------------------------------------
(* Bounds and input sets *)

MaxExpenses == 2
MaxIncomeCalls == 2

IncomeAmounts == {-5, 5}
ExpenseAmounts == {-4, 4, 5}
Times == {1, 2}
CategoryInputs == {"Rent", "Miscellaneous", "Misc-invalid-category"}

DefaultCategories ==
    <<"Rent", "Food", "Entertainment", "Transportation", "Miscellaneous">>

Queries == {"view_expenses", "get_total_expenses", "get_remaining_budget",
            "view_spending_by_category", "spending_insights"}

CallerOps == {"caller.append", "caller.pop", "caller.setitem"}

\* what a caller writes into the list it was handed
CallerEntries == {[amount |-> 5, category |-> "Misc-invalid-category", date |-> 1]}

NoneValue == "None"

-----------------------------------------------------------------------------
(* Python helpers *)

\* x in list
InList(x, list) == \E i \in DOMAIN list : list[i] = x

\* sum(expense['amount'] for expense in list)
RECURSIVE SumAmounts(_)
SumAmounts(list) ==
    IF list = <<>> THEN 0
    ELSE SumAmounts(SubSeq(list, 1, Len(list) - 1)) + list[Len(list)].amount

RECURSIVE SumSeq(_)
SumSeq(s) == IF s = <<>> THEN 0 ELSE s[1] + SumSeq(Tail(s))

DictHas(d, k) == \E i \in DOMAIN d : d[i][1] = k

DictGet(d, k) == d[CHOOSE i \in DOMAIN d : d[i][1] = k][2]

\* d[k] = v: an existing key keeps its position, a new key goes last
DictSet(d, k, v) ==
    IF DictHas(d, k)
    THEN [i \in DOMAIN d |-> IF d[i][1] = k THEN <<k, v>> ELSE d[i]]
    ELSE Append(d, <<k, v>>)

DictKeys(d) == [i \in DOMAIN d |-> d[i][1]]

DictValues(d) == [i \in DOMAIN d |-> d[i][2]]

\* {category: 0 for category in keys}
RECURSIVE ZeroDict(_)
ZeroDict(keys) ==
    IF keys = <<>> THEN <<>>
    ELSE DictSet(ZeroDict(SubSeq(keys, 1, Len(keys) - 1)), keys[Len(keys)], 0)

-----------------------------------------------------------------------------
(* The methods as functions of the fields *)

get_total_expenses_value(exps) == SumAmounts(exps)

\* variant: the balance is floored at zero
get_remaining_budget_value_clamped(inc, exps) ==
    IF inc - get_total_expenses_value(exps) < 0 THEN 0
    ELSE inc - get_total_expenses_value(exps)

get_remaining_budget_value(inc, exps) == inc - get_total_expenses_value(exps)

\* for expense in self.expenses: d[expense['category']] += expense['amount']
RECURSIVE AccumulateSpending(_, _)
AccumulateSpending(d, exps) ==
    IF exps = <<>> THEN [raised |-> "", value |-> d]
    ELSE LET e == exps[1] IN
         IF ~DictHas(d, e.category)
         THEN [raised |-> "KeyError", value |-> d]
         ELSE AccumulateSpending(
                  DictSet(d, e.category, DictGet(d, e.category) + e.amount),
                  Tail(exps))

\* variant: the mapping is built from the expenses alone, a key is created
\* the first time its category is met
RECURSIVE AccumulateLazily(_, _)
AccumulateLazily(d, exps) ==
    IF exps = <<>> THEN [raised |-> "", value |-> d]
    ELSE LET e == exps[1]
             old == IF DictHas(d, e.category) THEN DictGet(d, e.category) ELSE 0
         IN  AccumulateLazily(DictSet(d, e.category, old + e.amount), Tail(exps))

view_spending_by_category_value_lazy(cats, exps) == AccumulateLazily(<<>>, exps)

view_spending_by_category_value(cats, exps) ==
    AccumulateSpending(ZeroDict(cats), exps)

\* total_expenses > self.income * 0.8
ExceedsEightyPercent(total, inc) == 5 * total > 4 * inc

\* variant: the first rung of the ladder is >= instead of >
spending_insights_value_ge(inc, exps) ==
    LET total_expenses == get_total_expenses_value(exps)
        remaining_budget == get_remaining_budget_value(inc, exps)
        insights == [total_income |-> inc,
                     total_expenses |-> total_expenses,
                     remaining_budget |-> remaining_budget]
    IN  IF total_expenses >= inc
        THEN insights @@
             [message |-> "Warning: You are overspending! Try to cut down on unnecessary expenses.",
              status |-> "warning"]
        ELSE IF ExceedsEightyPercent(total_expenses, inc)
        THEN insights @@
             [message |-> "Caution: You are nearing your budget limit. Consider saving more.",
              status |-> "caution"]
        ELSE insights @@
             [message |-> "Great job! You are managing your budget well.",
              status |-> "success"]

spending_insights_value(inc, exps) ==
    LET total_expenses == get_total_expenses_value(exps)
        remaining_budget == get_remaining_budget_value(inc, exps)
        insights == [total_income |-> inc,
                     total_expenses |-> total_expenses,
                     remaining_budget |-> remaining_budget]
    IN  IF total_expenses > inc
        THEN insights @@
             [message |-> "Warning: You are overspending! Try to cut down on unnecessary expenses.",
              status |-> "warning"]
        ELSE IF ExceedsEightyPercent(total_expenses, inc)
        THEN insights @@
             [message |-> "Caution: You are nearing your budget limit. Consider saving more.",
              status |-> "caution"]
        ELSE insights @@
             [message |-> "Great job! You are managing your budget well.",
              status |-> "success"]

-----------------------------------------------------------------------------
(* State machine *)

\* clock: the value datetime.datetime.now() yielded during the call, 0 when
\* the call does not read the clock
Call(op, args, clock) == [op |-> op, args |-> args, clock |-> clock]

Init ==
    /\ income = 0
    /\ expenses = <<>>
    /\ categories = DefaultCategories
    /\ view = NoneValue
    /\ lastOp = Call("__init__", <<>>, 0)
    /\ result = <<NoneValue>>
    /\ incomeArgs = <<>>
    /\ expenseArgs = <<>>

add_income(amount) ==
    /\ Len(incomeArgs) < MaxIncomeCalls
    /\ income' = income + amount
    /\ lastOp' = Call("add_income", <<amount>>, 0)
    /\ result' = <<NoneValue>>
    /\ incomeArgs' = Append(incomeArgs, amount)
    /\ UNCHANGED <<expenses, categories, view, expenseArgs>>

\* variant: the entry is appended before the category is looked at
add_expense_append_first(amount, category, now) ==
    /\ Len(expenses) < MaxExpenses
    /\ Len(expenseArgs) < MaxExpenses
    /\ expenses' = Append(expenses,
           [amount |-> amount, category |-> category, date |-> now])
    /\ lastOp' = Call("add_expense", <<amount, category>>,
                      IF InList(category, categories) THEN now ELSE 0)
    /\ result' = <<InList(category, categories)>>
    /\ expenseArgs' = IF InList(category, categories)
                      THEN Append(expenseArgs, amount) ELSE expenseArgs
    /\ UNCHANGED <<income, categories, view, incomeArgs>>

\* variant: the entry is inserted at the head of the list
add_expense_insert_front(amount, category, now) ==
    IF ~InList(category, categories)
    THEN /\ lastOp' = Call("add_expense", <<amount, category>>, 0)
         /\ result' = <<FALSE>>
         /\ UNCHANGED <<income, expenses, categories, view, incomeArgs, expenseArgs>>
    ELSE /\ Len(expenses) < MaxExpenses
         /\ Len(expenseArgs) < MaxExpenses
         /\ expenses' = <<[amount |-> amount, category |-> category, date |-> now]>>
                            \o expenses
         /\ lastOp' = Call("add_expense", <<amount, category>>, now)
         /\ result' = <<TRUE>>
         /\ expenseArgs' = Append(expenseArgs, amount)
         /\ UNCHANGED <<income, categories, view, incomeArgs>>

\* variant: an unknown category is registered instead of rejected
add_expense_registering(amount, category, now) ==
    /\ Len(expenses) < MaxExpenses
    /\ Len(expenseArgs) < MaxExpenses
    /\ categories' = IF InList(category, categories) THEN categories
                     ELSE Append(categories, category)
    /\ expenses' = Append(expenses,
           [amount |-> amount, category |-> category, date |-> now])
    /\ lastOp' = Call("add_expense", <<amount, category>>, now)
    /\ result' = <<TRUE>>
    /\ expenseArgs' = Append(expenseArgs, amount)
    /\ UNCHANGED <<income, view, incomeArgs>>

add_expense(amount, category, now) ==
    IF ~InList(category, categories)
    THEN /\ lastOp' = Call("add_expense", <<amount, category>>, 0)
         /\ result' = <<FALSE>>
         /\ UNCHANGED <<income, expenses, categories, view, incomeArgs, expenseArgs>>
    ELSE /\ Len(expenses) < MaxExpenses
         /\ Len(expenseArgs) < MaxExpenses
         /\ expenses' = Append(expenses,
                [amount |-> amount, category |-> category, date |-> now])
         /\ lastOp' = Call("add_expense", <<amount, category>>, now)
         /\ result' = <<TRUE>>
         /\ expenseArgs' = Append(expenseArgs, amount)
         /\ UNCHANGED <<income, categories, view, incomeArgs>>

Query(q, value) ==
    /\ lastOp' = Call(q, <<>>, 0)
    /\ result' = <<value>>

\* return self.expenses: the caller gets the list object itself
view_expenses ==
    /\ Query("view_expenses", expenses)
    /\ view' = "self.expenses"
    /\ UNCHANGED <<income, expenses, categories, incomeArgs, expenseArgs>>

\* variant: the list is emptied while it is summed
get_total_expenses_draining ==
    /\ Query("get_total_expenses", get_total_expenses_value(expenses))
    /\ expenses' = <<>>
    /\ UNCHANGED <<income, categories, view, incomeArgs, expenseArgs>>

get_total_expenses ==
    /\ Query("get_total_expenses", get_total_expenses_value(expenses))
    /\ UNCHANGED <<income, expenses, categories, view, incomeArgs, expenseArgs>>

get_remaining_budget ==
    /\ Query("get_remaining_budget", get_remaining_budget_value(income, expenses))
    /\ UNCHANGED <<income, expenses, categories, view, incomeArgs, expenseArgs>>

view_spending_by_category ==
    /\ Query("view_spending_by_category",
             view_spending_by_category_value(categories, expenses))
    /\ UNCHANGED <<income, expenses, categories, view, incomeArgs, expenseArgs>>

spending_insights ==
    /\ Query("spending_insights", spending_insights_value(income, expenses))
    /\ UNCHANGED <<income, expenses, categories, view, incomeArgs, expenseArgs>>

AddIncomeStep == \E amount \in IncomeAmounts : add_income(amount)

AddExpenseStep ==
    \E amount \in ExpenseAmounts, category \in CategoryInputs, now \in Times :
        add_expense(amount, category, now)

Next ==
    \/ AddIncomeStep
    \/ AddExpenseStep
    \/ view_expenses
    \/ get_total_expenses
    \/ get_remaining_budget
    \/ view_spending_by_category
    \/ spending_insights

Spec == Init /\ [][Next]_vars

-----------------------------------------------------------------------------
(* A caller that keeps the list view_expenses() handed out and writes to it. *)
(* The list is self.expenses itself, so each write lands in the ledger.      *)

CallerStep(op, args, newList) ==
    /\ view = "self.expenses"
    /\ expenses' = newList
    /\ lastOp' = Call(op, args, 0)
    /\ result' = <<NoneValue>>
    /\ UNCHANGED <<income, categories, view, incomeArgs, expenseArgs>>

\* view.append(entry)
caller_append(entry) ==
    /\ Len(expenses) < MaxExpenses
    /\ CallerStep("caller.append", <<entry>>, Append(expenses, entry))

\* view.pop()
caller_pop ==
    /\ expenses # <<>>
    /\ CallerStep("caller.pop", <<>>, SubSeq(expenses, 1, Len(expenses) - 1))

\* view[i] = entry
caller_setitem(i, entry) ==
    /\ i \in DOMAIN expenses
    /\ CallerStep("caller.setitem", <<i, entry>>, [expenses EXCEPT ![i] = entry])

CallerAppendStep == \E entry \in CallerEntries : caller_append(entry)

CallerSetitemStep ==
    \E i \in 1..MaxExpenses, entry \in CallerEntries : caller_setitem(i, entry)

NextWithCaller ==
    \/ AddIncomeStep
    \/ AddExpenseStep
    \/ view_expenses
    \/ get_total_expenses
    \/ get_remaining_budget
    \/ view_spending_by_category
    \/ spending_insights
    \/ CallerAppendStep
    \/ caller_pop
    \/ CallerSetitemStep

SpecWithCaller == Init /\ [][NextWithCaller]_vars

-----------------------------------------------------------------------------
(* Properties *)

IsCall(call, op) == call.op = op

Entry(amount, category, date) ==
    [amount |-> amount, category |-> category, date |-> date]

\* the amounts of the entries of one category, in list order
AmountsOf(exps, category) ==
    LET sel == SelectSeq(exps, LAMBDA e : e.category = category)
    IN  [i \in DOMAIN sel |-> sel[i].amount]

Total == SumSeq([i \in DOMAIN expenses |-> expenses[i].amount])

\* the ladder: warning above income, caution above 80% of income, else success
Ladder(total, inc) ==
    IF total > inc THEN "warning"
    ELSE IF 5 * total > 4 * inc THEN "caution"
    ELSE "success"

\* C1: an add_expense call whose category is not in categories returns False
\* and leaves income, expenses and categories as they were.
TheoremC1 ==
    [][(IsCall(lastOp', "add_expense") /\ ~InList(lastOp'.args[2], categories))
        => (result' = <<FALSE>> /\ income' = income /\ expenses' = expenses
            /\ categories' = categories)]_vars

WitnessC1 ==
    /\ IsCall(lastOp, "add_expense")
    /\ ~InList(lastOp.args[2], categories)
    /\ result = <<FALSE>>
    /\ Len(expenses) >= 1
    /\ income # 0

\* C2: an add_expense call whose category is in categories returns True for
\* every amount, and the list afterwards is the list before with the one
\* entry {amount, category, clock value} at its end; the total grows by
\* amount and income is unchanged.
TheoremC2 ==
    [][(IsCall(lastOp', "add_expense") /\ InList(lastOp'.args[2], categories))
        => (/\ result' = <<TRUE>>
            /\ expenses' = Append(expenses,
                   Entry(lastOp'.args[1], lastOp'.args[2], lastOp'.clock))
            /\ lastOp'.clock \in Times
            /\ get_total_expenses_value(expenses')
                   = get_total_expenses_value(expenses) + lastOp'.args[1]
            /\ income' = income
            /\ categories' = categories)]_vars

WitnessC2 ==
    /\ IsCall(lastOp, "add_expense")
    /\ result = <<TRUE>>
    /\ Len(expenses) >= 2
    /\ lastOp.args[1] < 0
    /\ expenses[Len(expenses)] = Entry(lastOp.args[1], lastOp.args[2], lastOp.clock)

\* C3 (as stated): nothing a caller does to the value view_expenses()
\* returned changes the ledger's expenses list.
CounterC3 ==
    [][lastOp'.op \in CallerOps => expenses' = expenses]_vars

\* C4 (as stated): spending_insights() follows the ladder; exactly 80% of
\* income gives success, a fresh ledger gives success, positive spending on
\* zero income gives warning; the three figures are income, total, balance.
CounterC4 ==
    IsCall(lastOp, "spending_insights") =>
        /\ result[1].status = Ladder(Total, income)
        /\ (5 * Total = 4 * income => result[1].status = "success")
        /\ (income = 0 /\ Total = 0 => result[1].status = "success")
        /\ (income = 0 /\ Total > 0 => result[1].status = "warning")
        /\ result[1].total_income = income
        /\ result[1].total_expenses = Total
        /\ result[1].remaining_budget = income - Total

\* C5 (as stated): expenses equal to a positive income give status warning.
CounterC5 ==
    (IsCall(lastOp, "spending_insights") /\ Total = income /\ income > 0)
        => result[1].status = "warning"

\* C5 (amended): expenses equal to a positive income give status caution.
TheoremC5 ==
    (IsCall(lastOp, "spending_insights") /\ Total = income /\ income > 0)
        => result[1].status = "caution"

WitnessC5 ==
    /\ IsCall(lastOp, "spending_insights")
    /\ Total = income
    /\ income > 0
    /\ result[1].status = "caution"

\* C6 (as stated): income changes only in add_income, never decreases and is
\* never negative.
CounterC6 ==
    [][/\ income' >= income
       /\ income' >= 0
       /\ (income' # income => IsCall(lastOp', "add_income"))]_vars

\* C7: every recorded expense has a category of categories, and categories
\* is the list it was at construction.
TheoremC7 ==
    /\ \A i \in DOMAIN expenses : InList(expenses[i].category, categories)
    /\ categories = DefaultCategories

WitnessC7 ==
    /\ IsCall(lastOp, "add_expense")
    /\ result = <<FALSE>>
    /\ Len(expenses) >= 2
    /\ incomeArgs # <<>>
    /\ view = "self.expenses"

\* C8: view_spending_by_category() returns the categories as keys, in the
\* order of categories, each with the sum of the amounts recorded for it,
\* and the values add up to the total.
TheoremC8 ==
    IsCall(lastOp, "view_spending_by_category") =>
        /\ result[1].raised = ""
        /\ DictKeys(result[1].value) = categories
        /\ \A i \in DOMAIN categories :
               result[1].value[i][2] = SumSeq(AmountsOf(expenses, categories[i]))
        /\ SumSeq(DictValues(result[1].value)) = get_total_expenses_value(expenses)

WitnessC8 ==
    /\ IsCall(lastOp, "view_spending_by_category")
    /\ Len(expenses) >= 2
    /\ result[1].value[1][2] # 0
    /\ result[1].value[5][2] # 0
    /\ result[1].value[2][2] = 0

\* C9: get_remaining_budget() is income minus total, income being the sum of
\* the amounts given to add_income and total the sum of the accepted
\* expense amounts; it is negative when the total exceeds income.
TheoremC9 ==
    /\ income = SumSeq(incomeArgs)
    /\ get_total_expenses_value(expenses) = SumSeq(expenseArgs)
    /\ IsCall(lastOp, "get_total_expenses") => result[1] = SumSeq(expenseArgs)
    /\ IsCall(lastOp, "get_remaining_budget") =>
           /\ result[1] = SumSeq(incomeArgs) - SumSeq(expenseArgs)
           /\ (SumSeq(expenseArgs) > SumSeq(incomeArgs) => result[1] < 0)

WitnessC9 ==
    /\ IsCall(lastOp, "get_remaining_budget")
    /\ Len(incomeArgs) >= 2
    /\ Len(expenseArgs) >= 2
    /\ SumSeq(expenseArgs) > SumSeq(incomeArgs)
    /\ result[1] < 0

\* C10: a query leaves income, expenses and categories unchanged, and a query
\* repeated right after itself returns what it returned before.
TheoremC10 ==
    [][lastOp'.op \in Queries
        => (/\ income' = income
            /\ expenses' = expenses
            /\ categories' = categories
            /\ (lastOp.op = lastOp'.op => result' = result))]_vars

WitnessC10 ==
    /\ IsCall(lastOp, "spending_insights")
    /\ view = "self.expenses"
    /\ Len(expenses) >= 2
    /\ income # 0

=============================================================================
